---- MODULE Spec2Model ----
(***************************************************************************)
(* Manifest store of server/manifest.go (second file of runner.go):        *)
(* WriteManifest, ParseNamedManifest, Manifests, Manifest.Remove and the   *)
(* synthetic Apple Foundation Model manifests of createAppleManifests.     *)
(*                                                                         *)
(* A file is a sequence of bytes.  One "byte" of the model is one lexical  *)
(* unit of the JSON text: a brace, a white-space character, a garbage      *)
(* byte, or one whole "key":value member of the top-level object.          *)
(* sha256 is modelled as a perfect (injective) hash: the sum of a byte     *)
(* sequence is the sequence itself, tagged.                                *)
(***************************************************************************)
EXTENDS Integers, Sequences, FiniteSets, TLC

(***************************************************************************)
(* Bounds                                                                  *)
(***************************************************************************)
\* longest layer list handed to WriteManifest (the layers of a list are distinct)
MaxLayers == 2
\* encoding/json's Decoder reads at least minRead bytes per refill (512 in
\* the library); scaled down to the byte unit of the model
MinRead == 2

(***************************************************************************)
(* Layer (digest, media type, size)                                        *)
(***************************************************************************)
Layer(mt, dg, sz) == [MediaType |-> mt, Digest |-> dg, Size |-> sz]

ZeroLayer == Layer("", "", 0)

LayerA == Layer("cfg", "sha256:aa", 10)

LayerB == Layer("weights", "sha256:bb", 2048)

LayerSet == {LayerA, LayerB}

\* the sequences of distinct elements of S of length at most n
RECURSIVE SeqsUpTo(_, _)
SeqsUpTo(S, n) ==
    IF n = 0 THEN {<<>>}
    ELSE LET shorter == SeqsUpTo(S, n - 1)
             longest == {t \in shorter : Len(t) = n - 1}
         IN  shorter \cup UNION {{Append(t, x) : x \in S \ {t[i] : i \in 1..Len(t)}} : t \in longest}

LayerSeqs == SeqsUpTo(LayerSet, MaxLayers)

(***************************************************************************)
(* model.Name: host/namespace/model/tag                                    *)
(***************************************************************************)
Name(h, ns, mo, tg) == [Host |-> h, Namespace |-> ns, Model |-> mo, Tag |-> tg]

\* strings that are well-formed name parts
WellFormedParts == {"registry.ollama.ai", "library", "apple", "demo", "latest"}

IsValid(n) ==
    /\ n.Host \in WellFormedParts
    /\ n.Namespace \in WellFormedParts
    /\ n.Model \in WellFormedParts
    /\ n.Tag \in WellFormedParts

IsFullyQualified(n) == IsValid(n)

\* Name.Filepath: the parts in fixed order; it has no error result, so on a
\* name that is not fully qualified it can only fail by panicking
Filepath(n) == <<n.Host, n.Namespace, n.Model, n.Tag>>

FilepathPanics(n) == ~IsFullyQualified(n)

ParseNameFromFilepath(rel) ==
    IF Len(rel) = 4 THEN Name(rel[1], rel[2], rel[3], rel[4]) ELSE Name("", "", "", "")

\* model.ParseName fills the missing parts with the defaults
ParseName(s) == Name("registry.ollama.ai", "library", s, "latest")

DemoName == ParseName("demo")

AppleName == ParseName("apple")

\* the tag is missing
UnqualName == Name("registry.ollama.ai", "library", "demo", "")

QualifiedNames == {DemoName, AppleName}

NameInputs == QualifiedNames \cup {UnqualName}

\* a four-segment path whose third segment is not a well-formed name part
BadPath == <<"registry.ollama.ai", "library", "b@d", "latest">>

\* every path of the model, in the lexical order filepath.Glob returns
GlobOrder == <<Filepath(AppleName), BadPath, Filepath(DemoName)>>

AllPaths == {GlobOrder[i] : i \in 1..Len(GlobOrder)}

ManifestsRoot == "manifests"

\* filepath.Join(manifests, rel)
Join(rel) == <<ManifestsRoot>> \o rel

\* filepath.Rel(manifests, p)
Rel(p) == Tail(p)

\* the directories filepath.Dir(p) and its ancestors below the root
DirsOf(rel) == {SubSeq(rel, 1, k) : k \in 1..(Len(rel) - 1)}

(***************************************************************************)
(* Bytes of a manifest file                                                *)
(***************************************************************************)
Tok(k) == [k |-> k, n |-> 0, s |-> "", l |-> <<>>, b |-> FALSE]

LBrace == Tok("{")

RBrace == Tok("}")

WS == Tok(" ")

NL == Tok("nl")

Garbage == Tok("x")

KSchemaVersion(v) == [Tok("schemaVersion") EXCEPT !.n = v]

KMediaType(v) == [Tok("mediaType") EXCEPT !.s = v]

KConfig(layer) == [Tok("config") EXCEPT !.l = <<layer>>]

KLayers(layers) == [Tok("layers") EXCEPT !.l = layers]

KApple(v) == [Tok("IsAppleFoundationModel") EXCEPT !.b = v]

MemberKeys == {"schemaVersion", "mediaType", "config", "layers", "IsAppleFoundationModel"}

Min(a, b) == IF a < b THEN a ELSE b

\* hex.EncodeToString(sha256sum.Sum(nil)) over the bytes written to the hash
SHA256Hex(bytes) == [set |-> TRUE, sum |-> bytes]

\* the zero value of the digest field
NoDigest == [set |-> FALSE, sum |-> <<>>]

(***************************************************************************)
(* os.FileInfo                                                             *)
(***************************************************************************)
NilFileInfo == [present |-> FALSE, name |-> <<>>, size |-> 0, isDir |-> FALSE, fake |-> FALSE]

\* f.Stat() of a regular file
StatFile(rel, bytes) ==
    [present |-> TRUE, name |-> <<rel[Len(rel)]>>, size |-> Len(bytes), isDir |-> FALSE, fake |-> FALSE]

StatDir(rel) ==
    [present |-> TRUE, name |-> <<rel[Len(rel)]>>, size |-> 0, isDir |-> TRUE, fake |-> FALSE]

fakeFileInfo(name, size) ==
    [present |-> TRUE, name |-> name, size |-> size, isDir |-> FALSE, fake |-> TRUE]

(***************************************************************************)
(* Manifest                                                                *)
(***************************************************************************)
DockerMediaType == "application/vnd.docker.distribution.manifest.v2+json"

ZeroManifest ==
    [SchemaVersion |-> 0, MediaType |-> "", Config |-> ZeroLayer, Layers |-> <<>>,
     IsAppleFoundationModel |-> FALSE,
     filepath |-> <<>>, fi |-> NilFileInfo, digest |-> NoDigest]

RECURSIVE SumSizes(_)
SumSizes(layers) ==
    IF layers = <<>> THEN 0 ELSE Head(layers).Size + SumSizes(Tail(layers))

\* a Size that forgets the config
SizeOfLayersOnly(m) == SumSizes(m.Layers)

\* Manifest.Size: the sizes of append(m.Layers, m.Config)
Size(m) == SumSizes(Append(m.Layers, m.Config))

(***************************************************************************)
(* json.NewEncoder(f).Encode(m): the exported fields in declaration order, *)
(* then a newline                                                          *)
(***************************************************************************)
\* an encoder that leaves the layers out
EncodeManifestNoLayers(m) ==
    <<LBrace, KSchemaVersion(m.SchemaVersion), KMediaType(m.MediaType), KConfig(m.Config),
      KApple(m.IsAppleFoundationModel), RBrace, NL>>

EncodeManifest(m) ==
    <<LBrace, KSchemaVersion(m.SchemaVersion), KMediaType(m.MediaType), KConfig(m.Config),
      KLayers(m.Layers), KApple(m.IsAppleFoundationModel), RBrace, NL>>

(***************************************************************************)
(* json.Decoder.Decode over io.TeeReader(f, sha256sum)                     *)
(***************************************************************************)
\* the scanner over the buffered bytes: "done" at the closing brace of the
\* top-level object, "error" at the first byte that cannot continue a
\* manifest object, "more" when the buffer ends inside the value
RECURSIVE ScanFrom(_, _, _)
ScanFrom(buf, i, inObject) ==
    IF i > Len(buf) THEN [st |-> "more", end |-> 0]
    ELSE LET k == buf[i].k
         IN  IF k \in {" ", "nl"} THEN ScanFrom(buf, i + 1, inObject)
             ELSE IF ~inObject
                  THEN IF k = "{" THEN ScanFrom(buf, i + 1, TRUE)
                       ELSE [st |-> "error", end |-> i]
                  ELSE IF k \in MemberKeys THEN ScanFrom(buf, i + 1, TRUE)
                       ELSE IF k = "}" THEN [st |-> "done", end |-> i]
                       ELSE [st |-> "error", end |-> i]

Scan(buf) == ScanFrom(buf, 1, FALSE)

\* one member stored into the struct; a repeated key overwrites
SetMember(m, tok) ==
    CASE tok.k = "schemaVersion" -> [m EXCEPT !.SchemaVersion = tok.n]
      [] tok.k = "mediaType" -> [m EXCEPT !.MediaType = tok.s]
      [] tok.k = "config" -> [m EXCEPT !.Config = tok.l[1]]
      [] tok.k = "layers" -> [m EXCEPT !.Layers = tok.l]
      [] tok.k = "IsAppleFoundationModel" -> [m EXCEPT !.IsAppleFoundationModel = tok.b]
      [] OTHER -> m

RECURSIVE Unmarshal(_, _)
Unmarshal(m, value) ==
    IF value = <<>> THEN m ELSE Unmarshal(SetMember(m, Head(value)), Tail(value))

\* Decoder.refill grows a full buffer to 2*cap+minRead
NextCap(cap) == 2 * cap + MinRead

\* reads until the buffer holds a complete value, a syntax error, or the
\* file ends; read is the number of bytes that went through the TeeReader
RECURSIVE DecodeFrom(_, _)
DecodeFrom(bytes, cap) ==
    LET n == Min(Len(bytes), cap)
        sc == Scan(SubSeq(bytes, 1, n))
    IN  IF sc.st = "done"
        THEN [ok |-> TRUE, read |-> n, m |-> Unmarshal(ZeroManifest, SubSeq(bytes, 1, sc.end))]
        ELSE IF sc.st = "error" \/ n = Len(bytes)
             THEN [ok |-> FALSE, read |-> n, m |-> ZeroManifest]
             ELSE DecodeFrom(bytes, NextCap(cap))

\* the first refill allocates the buffer
Decode(bytes) == DecodeFrom(bytes, NextCap(0))

(***************************************************************************)
(* Files                                                                   *)
(***************************************************************************)
NoFile == [kind |-> "none", bytes |-> <<>>]

DirEntry == [kind |-> "dir", bytes |-> <<>>]

File(bytes) == [kind |-> "file", bytes |-> bytes]

(***************************************************************************)
(* ParseNamedManifest                                                      *)
(***************************************************************************)
Result(err, m, trace) == [err |-> err, m |-> m, trace |-> trace]

\* a reader that resolves the store root before it looks at the name
ParseNamedManifestLateCheck(fs, n) ==
    IF ~IsFullyQualified(n) THEN Result("Unqualified", ZeroManifest, <<"GetManifestPath">>)
    ELSE LET rel == Filepath(n)
             f == fs[rel]
             dec == Decode(f.bytes)
         IN  IF f.kind = "none"
             THEN Result("NotFound", ZeroManifest, <<"GetManifestPath", "Open">>)
             ELSE IF f.kind = "dir" \/ ~dec.ok
             THEN Result(IF f.kind = "dir" THEN "IOError" ELSE "Corrupt", ZeroManifest,
                         <<"GetManifestPath", "Open", "Stat", "Read">>)
             ELSE Result("OK",
                         [dec.m EXCEPT !.filepath = Join(rel),
                                       !.fi = StatFile(rel, f.bytes),
                                       !.digest = SHA256Hex(SubSeq(f.bytes, 1, dec.read))],
                         <<"GetManifestPath", "Open", "Stat", "Read">>)

\* a reader that takes a missing file for an empty manifest
ParseNamedManifestIgnoringOpen(fs, n) ==
    IF ~IsFullyQualified(n) THEN Result("Unqualified", ZeroManifest, <<>>)
    ELSE LET rel == Filepath(n)
             f == fs[rel]
             dec == Decode(f.bytes)
         IN  IF f.kind = "dir"
             THEN Result("IOError", ZeroManifest, <<"GetManifestPath", "Open", "Stat", "Read">>)
             ELSE IF f.kind = "file" /\ ~dec.ok
             THEN Result("Corrupt", ZeroManifest, <<"GetManifestPath", "Open", "Stat", "Read">>)
             ELSE Result("OK",
                         [dec.m EXCEPT !.filepath = Join(rel),
                                       !.fi = StatFile(rel, f.bytes),
                                       !.digest = SHA256Hex(SubSeq(f.bytes, 1, dec.read))],
                         <<"GetManifestPath", "Open", "Stat", "Read">>)

ParseNamedManifest(fs, n) ==
    IF ~IsFullyQualified(n) THEN Result("Unqualified", ZeroManifest, <<>>)
    ELSE LET rel == Filepath(n)
             p == Join(rel)
             f == fs[rel]
             dec == Decode(f.bytes)
         IN  IF f.kind = "none"
             THEN Result("NotFound", ZeroManifest, <<"GetManifestPath", "Open">>)
             ELSE IF f.kind = "dir"
             THEN Result("IOError", ZeroManifest, <<"GetManifestPath", "Open", "Stat", "Read">>)
             ELSE IF ~dec.ok
             THEN Result("Corrupt", ZeroManifest, <<"GetManifestPath", "Open", "Stat", "Read">>)
             ELSE Result("OK",
                         [dec.m EXCEPT !.filepath = p,
                                       !.fi = StatFile(rel, f.bytes),
                                       !.digest = SHA256Hex(SubSeq(f.bytes, 1, dec.read))],
                         <<"GetManifestPath", "Open", "Stat", "Read">>)

(***************************************************************************)
(* createAppleManifests                                                    *)
(***************************************************************************)
\* len(configData), the JSON of the fixed ConfigV2 value (ConfigV2 is declared
\* elsewhere in the server package; only Size() depends on the number)
ConfigDataLen == 194

\* len(templateData)
TemplateDataLen == 181

ModelLayerSize == 1024 * 1024

GenerateFakeDigest(name) == "sha256hex(apple:" \o name \o ")"

\* reflect: FieldByName finds every field of the struct, CanSet is true only
\* for the exported ones
StructFields ==
    {"SchemaVersion", "MediaType", "Config", "Layers", "IsAppleFoundationModel",
     "filepath", "fi", "digest"}

ExportedFields == {"SchemaVersion", "MediaType", "Config", "Layers", "IsAppleFoundationModel"}

FieldIsValid(f) == f \in StructFields

FieldCanSet(f) == f \in ExportedFields

createAppleManifests ==
    LET name == ParseName("apple")
        fakeDigest == GenerateFakeDigest("apple")
        configLayer == Layer("application/vnd.ollama.image.config", fakeDigest, ConfigDataLen)
        modelLayer ==
            Layer("application/vnd.ollama.image.applefoundationmodel", fakeDigest, ModelLayerSize)
        templateLayer == Layer("application/vnd.ollama.image.template", fakeDigest, TemplateDataLen)
        manifest ==
            [ZeroManifest EXCEPT !.SchemaVersion = 2,
                                 !.MediaType = DockerMediaType,
                                 !.Config = configLayer,
                                 !.Layers = <<modelLayer, templateLayer>>,
                                 !.IsAppleFoundationModel = TRUE]
        m1 == IF FieldIsValid("filepath") /\ FieldCanSet("filepath")
              THEN [manifest EXCEPT !.filepath = <<>>]
              ELSE manifest
        m2 == IF FieldIsValid("fi") /\ FieldCanSet("fi")
              THEN [m1 EXCEPT !.fi = fakeFileInfo(Filepath(name), Size(manifest))]
              ELSE m1
    IN  IF ~IsValid(name)
        THEN [err |-> "InvalidName", ms |-> [x \in {} |-> ZeroManifest]]
        ELSE [err |-> "OK", ms |-> [x \in {name} |-> m2]]

(***************************************************************************)
(* Manifests                                                               *)
(***************************************************************************)
EmptyMap == [x \in {} |-> ZeroManifest]

\* filepath.Glob(manifests/*/*/*/*): the existing entries, sorted
Glob(fs) == SelectSeq(GlobOrder, LAMBDA rel : fs[rel].kind # "none")

\* return ms, nil
ListOK(ms) == [err |-> "OK", errAt |-> <<>>, nilMs |-> FALSE, ms |-> ms]

\* return nil, err
ListErr(err, errAt) == [err |-> err, errAt |-> errAt, nilMs |-> TRUE, ms |-> EmptyMap]

\* a loop that a bad entry ends, with what was read so far
RECURSIVE ListFromBreak(_, _, _, _, _)
ListFromBreak(fs, matches, i, ms, continueOnError) ==
    IF i > Len(matches) THEN ListOK(ms)
    ELSE LET rel == matches[i]
             n == ParseNameFromFilepath(rel)
             r == ParseNamedManifest(fs, n)
         IN  IF fs[rel].kind = "dir" THEN ListFromBreak(fs, matches, i + 1, ms, continueOnError)
             ELSE IF ~IsValid(n)
             THEN IF ~continueOnError THEN ListErr("InvalidName", rel) ELSE ListOK(ms)
             ELSE IF r.err # "OK"
             THEN IF ~continueOnError THEN ListErr(r.err, rel) ELSE ListOK(ms)
             ELSE ListFromBreak(fs, matches, i + 1, (n :> r.m) @@ ms, continueOnError)

\* a loop that returns the error together with the entries read before it
RECURSIVE ListFromPartial(_, _, _, _, _)
ListFromPartial(fs, matches, i, ms, continueOnError) ==
    IF i > Len(matches) THEN ListOK(ms)
    ELSE LET rel == matches[i]
             n == ParseNameFromFilepath(rel)
             r == ParseNamedManifest(fs, n)
         IN  IF fs[rel].kind = "dir" THEN ListFromPartial(fs, matches, i + 1, ms, continueOnError)
             ELSE IF ~IsValid(n)
             THEN IF ~continueOnError
                  THEN [err |-> "InvalidName", errAt |-> rel, nilMs |-> FALSE, ms |-> ms]
                  ELSE ListFromPartial(fs, matches, i + 1, ms, continueOnError)
             ELSE IF r.err # "OK"
             THEN IF ~continueOnError
                  THEN [err |-> r.err, errAt |-> rel, nilMs |-> FALSE, ms |-> ms]
                  ELSE ListFromPartial(fs, matches, i + 1, ms, continueOnError)
             ELSE ListFromPartial(fs, matches, i + 1, (n :> r.m) @@ ms, continueOnError)

\* the loop over the matches
RECURSIVE ListFrom(_, _, _, _, _)
ListFrom(fs, matches, i, ms, continueOnError) ==
    IF i > Len(matches) THEN ListOK(ms)
    ELSE LET match == Join(matches[i])
             fi == IF fs[matches[i]].kind = "dir" THEN StatDir(matches[i])
                   ELSE StatFile(matches[i], fs[matches[i]].bytes)
             rel == Rel(match)
             n == ParseNameFromFilepath(rel)
             r == ParseNamedManifest(fs, n)
         IN  IF fi.isDir THEN ListFrom(fs, matches, i + 1, ms, continueOnError)
             ELSE IF ~IsValid(n)
             THEN IF ~continueOnError THEN ListErr("InvalidName", rel)
                  ELSE ListFrom(fs, matches, i + 1, ms, continueOnError)
             ELSE IF r.err # "OK"
             THEN IF ~continueOnError THEN ListErr(r.err, rel)
                  ELSE ListFrom(fs, matches, i + 1, ms, continueOnError)
             ELSE ListFrom(fs, matches, i + 1, (n :> r.m) @@ ms, continueOnError)

\* a merge that keeps the real manifest of a name
AddModelsKeepReal(ms, continueOnError) ==
    LET apple == createAppleManifests
    IN  IF apple.err # "OK"
        THEN IF ~continueOnError THEN ListErr(apple.err, <<>>)
             ELSE ListOK(ms)
        ELSE ListOK(ms @@ apple.ms)

\* "Add models": the synthetic manifests stored over the real ones
AddModels(ms, continueOnError) ==
    LET apple == createAppleManifests
    IN  IF apple.err # "OK"
        THEN IF ~continueOnError THEN ListErr(apple.err, <<>>)
             ELSE ListOK(ms)
        ELSE ListOK(apple.ms @@ ms)

Manifests(fs, appleFoundationModelEnabled, continueOnError) ==
    LET real == ListFrom(fs, Glob(fs), 1, EmptyMap, continueOnError)
    IN  IF real.err # "OK" THEN real
        ELSE IF appleFoundationModelEnabled THEN AddModels(real.ms, continueOnError)
        ELSE real

(***************************************************************************)
(* PruneDirectory(manifests): every empty directory below the root goes    *)
(***************************************************************************)
PruneFiles(fs) == [p \in AllPaths |-> IF fs[p].kind = "dir" THEN NoFile ELSE fs[p]]

PruneDirs(fs, ds) == {d \in ds : \E p \in AllPaths : fs[p].kind = "file" /\ d \in DirsOf(p)}

(***************************************************************************)
(* State                                                                   *)
(***************************************************************************)
VARIABLES
    files,     \* the entries below the manifests root, by relative path
    dirs,      \* the directories below the manifests root
    env,       \* OLLAMA_ENABLE_APPLE_FOUNDATION_MODEL == "1"
    last,      \* the most recent call: its arguments and what it returned
    written    \* per name, what the calls so far did to its file: the arguments of
               \* the put whose file is still in place (set), whether that put
               \* replaced the file of an earlier put (over), and whether a remove
               \* deleted the file with no put creating it since (removed)

VARIABLES
    blobs,     \* the digests of the layer blobs in the blob store
    lister,    \* a Manifests call in progress, between its filesystem calls
    writer,    \* a WriteManifest call in progress, between Create and Write
    srv,       \* the runner Server: status, progress, ready, mu, and its loading goroutine
    callers    \* the goroutines calling the Server's methods

\* what the store's calls, taken one whole call at a time, leave alone
aux == <<blobs, lister, writer, srv, callers>>

vars == <<files, dirs, env, last, written, blobs, lister, writer, srv, callers>>

NotWritten == [set |-> FALSE, over |-> FALSE, removed |-> FALSE, config |-> ZeroLayer, layers |-> <<>>]

Removed == [NotWritten EXCEPT !.removed = TRUE]

Call(op) ==
    [op |-> op, name |-> Name("", "", "", ""), fp |-> <<>>, tolerant |-> FALSE,
     enabled |-> FALSE, fault |-> "none", err |-> "OK", errAt |-> <<>>,
     hasM |-> FALSE, m |-> ZeroManifest, nilMs |-> TRUE, ms |-> EmptyMap, trace |-> <<>>,
     size |-> 0]

\* no Manifests call in progress
IdleLister ==
    [pc |-> "idle", tolerant |-> FALSE, matches |-> <<>>, i |-> 1, ms |-> EmptyMap]

\* no WriteManifest call in progress
IdleWriter ==
    [pc |-> "idle", name |-> Name("", "", "", ""), config |-> ZeroLayer, layers |-> <<>>,
     old |-> NotWritten]

\* the goroutines that call the Server
Callers == {"c1", "c2"}

\* NewServer: the Server as it is returned, its loading goroutine started
NewServer ==
    [status |-> "LoadingModel", progress |-> 0, ready |-> 1, mu |-> "", loader |-> "sleep",
     loaded |-> FALSE, closed |-> FALSE]

\* a goroutine that is in no call
IdleCaller ==
    [op |-> "", pc |-> "idle", ret |-> "", cancelled |-> FALSE, early |-> FALSE,
     done |-> FALSE, atSelect |-> "", callbacks |-> 0, cbDone |-> FALSE, late |-> FALSE,
     seen |-> ""]

StoreInit ==
    /\ files = [p \in AllPaths |-> NoFile]
    /\ dirs = {}
    /\ env = FALSE
    /\ last = Call("init")
    /\ written = [n \in QualifiedNames |-> NotWritten]

Init ==
    /\ StoreInit
    /\ blobs = {}
    /\ lister = IdleLister
    /\ writer = IdleWriter
    /\ srv = NewServer
    /\ callers = [c \in Callers |-> IdleCaller]

(***************************************************************************)
(* WriteManifest(name, config, layers)                                     *)
(***************************************************************************)
PutFaults == {"none", "mkdir", "create", "write"}

\* a failed Write leaves a prefix of the encoding in the truncated file:
\* nothing, or the opening brace
ShortWrites == {0, 1}

WriteManifest(name, config, layers, fault, cut) ==
    LET rel == Filepath(name)
        m == [ZeroManifest EXCEPT !.SchemaVersion = 2, !.MediaType = DockerMediaType,
                                  !.Config = config, !.Layers = layers]
        enc == EncodeManifest(m)
        call == [Call("put") EXCEPT !.name = name, !.fault = fault]
    IN  /\ UNCHANGED <<env, aux>>
        /\ IF FilepathPanics(name)
           THEN /\ last' = [call EXCEPT !.err = "Panic", !.trace = <<"GetManifestPath">>]
                /\ UNCHANGED <<files, dirs, written>>
           ELSE IF fault = "mkdir"
           THEN /\ last' = [call EXCEPT !.err = "IOError",
                                        !.trace = <<"GetManifestPath", "MkdirAll">>]
                /\ UNCHANGED <<files, dirs, written>>
           ELSE IF fault = "create"
           THEN /\ last' = [call EXCEPT !.err = "IOError",
                                        !.trace = <<"GetManifestPath", "MkdirAll", "Create">>]
                /\ dirs' = dirs \cup DirsOf(rel)
                /\ UNCHANGED <<files, written>>
           ELSE IF fault = "write"
           THEN /\ last' = [call EXCEPT !.err = "IOError",
                                        !.trace = <<"GetManifestPath", "MkdirAll", "Create", "Write">>]
                /\ dirs' = dirs \cup DirsOf(rel)
                /\ files' = [files EXCEPT ![rel] = File(SubSeq(enc, 1, cut))]
                /\ written' = [written EXCEPT ![name] = NotWritten]
           ELSE /\ last' = [call EXCEPT !.trace = <<"GetManifestPath", "MkdirAll", "Create", "Write">>]
                /\ dirs' = dirs \cup DirsOf(rel)
                /\ files' = [files EXCEPT ![rel] = File(enc)]
                /\ written' = [written EXCEPT ![name] =
                                  [set |-> TRUE,
                                   over |-> written[name].set
                                            /\ <<written[name].config, written[name].layers>>
                                               # <<config, layers>>,
                                   removed |-> FALSE, config |-> config, layers |-> layers]]

\* the (config, layers) a name is written with: every combination for the
\* demo name, one for the name the synthetic model shares; the arguments
\* matter only to a write that succeeds
PutArgs(name, fault) ==
    IF fault # "none" THEN {<<LayerA, <<>>>>}
    ELSE IF name = AppleName THEN {<<LayerA, <<LayerB>>>>}
    ELSE LayerSet \X LayerSeqs

Put ==
    \E name \in NameInputs, fault \in PutFaults :
        \E cut \in IF fault = "write" THEN ShortWrites ELSE {0}, args \in PutArgs(name, fault) :
            WriteManifest(name, args[1], args[2], fault, cut)

(***************************************************************************)
(* ParseNamedManifest(n)                                                   *)
(***************************************************************************)
Get ==
    \E n \in NameInputs :
        LET r == ParseNamedManifest(files, n)
        IN  /\ last' = [Call("get") EXCEPT !.name = n, !.err = r.err, !.hasM = (r.err = "OK"),
                                           !.m = r.m, !.trace = r.trace]
            /\ UNCHANGED <<files, dirs, env, written, aux>>

(***************************************************************************)
(* Manifests(continueOnError)                                              *)
(***************************************************************************)
List ==
    \E continueOnError \in BOOLEAN :
        LET r == Manifests(files, env, continueOnError)
        IN  /\ last' = [Call("list") EXCEPT !.tolerant = continueOnError, !.enabled = env,
                                            !.err = r.err, !.errAt = r.errAt,
                                            !.nilMs = r.nilMs, !.ms = r.ms]
            /\ UNCHANGED <<files, dirs, env, written, aux>>

(***************************************************************************)
(* Manifest.Remove, on a manifest the previous call returned               *)
(***************************************************************************)
Returned ==
    IF last.op = "get" /\ last.hasM THEN {last.m}
    ELSE IF last.op = "list" /\ ~last.nilMs THEN {last.ms[n] : n \in DOMAIN last.ms}
    ELSE {}

\* a remove that deletes the file and leaves the directories as they are
RemoveNoPrune ==
    \E m \in Returned :
        LET fp == m.filepath
            call == [Call("remove") EXCEPT !.fp = fp, !.m = m, !.hasM = TRUE]
        IN  /\ UNCHANGED <<env, aux>>
            /\ IF fp = <<>> \/ files[Rel(fp)].kind = "none"
               THEN /\ last' = [call EXCEPT !.err = "NotFound", !.trace = <<"Remove">>]
                    /\ UNCHANGED <<files, dirs, written>>
               ELSE /\ last' = [call EXCEPT !.trace = <<"Remove">>]
                    /\ files' = [files EXCEPT ![Rel(fp)] = NoFile]
                    /\ dirs' = dirs
                    /\ written' = [written EXCEPT ![ParseNameFromFilepath(Rel(fp))] = Removed]

Remove ==
    \E m \in Returned :
        LET fp == m.filepath
            call == [Call("remove") EXCEPT !.fp = fp, !.m = m, !.hasM = TRUE]
        IN  /\ UNCHANGED <<env, aux>>
            /\ IF fp = <<>> \/ files[Rel(fp)].kind = "none"
               THEN /\ last' = [call EXCEPT !.err = "NotFound", !.trace = <<"Remove">>]
                    /\ UNCHANGED <<files, dirs, written>>
               ELSE LET removed == [files EXCEPT ![Rel(fp)] = NoFile]
                    IN  /\ last' = [call EXCEPT !.trace = <<"Remove", "GetManifestPath",
                                                            "PruneDirectory">>]
                        /\ files' = PruneFiles(removed)
                        /\ dirs' = PruneDirs(removed, dirs)
                        /\ written' = [written EXCEPT ![ParseNameFromFilepath(Rel(fp))] = Removed]

(***************************************************************************)
(* The environment: the flag, and files that reach the store by other ways *)
(***************************************************************************)
SetEnv ==
    /\ env' = ~env
    /\ UNCHANGED <<files, dirs, last, written, aux>>

RawFiles ==
    { <<Garbage>>,
      <<LBrace, RBrace>>,
      <<LBrace, RBrace, WS, WS>>,
      <<LBrace, RBrace, WS, Garbage>>,
      <<LBrace, KApple(TRUE), KConfig(LayerA), RBrace, NL>>,
      <<LBrace, KConfig(LayerA), KApple(TRUE), RBrace, NL>> }

\* what may lie at a path: only the content of a well-named file is ever read
EntriesAt(p) ==
    IF p = BadPath THEN {File(<<LBrace, RBrace>>), DirEntry}
    ELSE IF p = Filepath(AppleName) THEN {File(<<Garbage>>), File(<<LBrace, RBrace>>)}
    ELSE {File(raw) : raw \in RawFiles}

ExternalWrite ==
    \E p \in AllPaths :
        \E entry \in EntriesAt(p) :
            /\ files' = [files EXCEPT ![p] = entry]
            /\ dirs' = dirs \cup DirsOf(p)
            /\ written' = [n \in QualifiedNames |-> IF Filepath(n) = p THEN NotWritten ELSE written[n]]
            /\ last' = [Call("external") EXCEPT !.fp = Join(p)]
            /\ UNCHANGED <<env, aux>>

Next == Put \/ Get \/ List \/ Remove \/ SetEnv \/ ExternalWrite

Spec == Init /\ [][Next]_vars


(***************************************************************************)
(* The blob store: Manifest.RemoveLayers and Manifest.Size on a manifest a *)
(* caller holds                                                            *)
(***************************************************************************)
\* the digests blobs are stored under
BlobDigests == {LayerA.Digest, LayerB.Digest}

\* Layer.Remove: deletes the blob of the layer's digest; a missing blob is
\* os.ErrNotExist, fault is the digest whose deletion fails for another reason
LayerRemove(layer, bs, fault) ==
    IF layer.Digest = fault THEN [err |-> "IOError", blobs |-> bs]
    ELSE IF layer.Digest \notin bs THEN [err |-> "NotFound", blobs |-> bs]
    ELSE [err |-> "OK", blobs |-> bs \ {layer.Digest}]

\* a loop that gives up at a blob that is already gone
RECURSIVE RemoveLayersStrict(_, _, _, _)
RemoveLayersStrict(layers, bs, fault, attempted) ==
    IF layers = <<>> THEN [err |-> "OK", blobs |-> bs, trace |-> attempted]
    ELSE LET layer == Head(layers)
             r == LayerRemove(layer, bs, fault)
         IN  IF layer.Digest # ""
             THEN IF r.err # "OK"
                  THEN [err |-> r.err, blobs |-> r.blobs, trace |-> Append(attempted, layer.Digest)]
                  ELSE RemoveLayersStrict(Tail(layers), r.blobs, fault,
                                          Append(attempted, layer.Digest))
             ELSE RemoveLayersStrict(Tail(layers), bs, fault, attempted)

\* a loop that leaves alone the blobs a manifest file of the store still names
RECURSIVE RemoveLayersCounted(_, _, _, _)
RemoveLayersCounted(layers, bs, fault, attempted) ==
    IF layers = <<>> THEN [err |-> "OK", blobs |-> bs, trace |-> attempted]
    ELSE LET layer == Head(layers)
             r == LayerRemove(layer, bs, fault)
             used == \E n \in QualifiedNames :
                        LET g == ParseNamedManifest(files, n)
                            ls == Append(g.m.Layers, g.m.Config)
                        IN  g.err = "OK" /\ \E i \in 1..Len(ls) : ls[i].Digest = layer.Digest
         IN  IF layer.Digest # "" /\ ~used
             THEN IF r.err = "NotFound"
                  THEN RemoveLayersCounted(Tail(layers), bs, fault, Append(attempted, layer.Digest))
                  ELSE IF r.err # "OK"
                  THEN [err |-> r.err, blobs |-> r.blobs, trace |-> Append(attempted, layer.Digest)]
                  ELSE RemoveLayersCounted(Tail(layers), r.blobs, fault,
                                           Append(attempted, layer.Digest))
             ELSE RemoveLayersCounted(Tail(layers), bs, fault, attempted)

\* the loop of RemoveLayers over append(m.Layers, m.Config); attempted is
\* the digests Layer.Remove was called on so far
RECURSIVE RemoveLayersFrom(_, _, _, _)
RemoveLayersFrom(layers, bs, fault, attempted) ==
    IF layers = <<>> THEN [err |-> "OK", blobs |-> bs, trace |-> attempted]
    ELSE LET layer == Head(layers)
             r == LayerRemove(layer, bs, fault)
         IN  IF layer.Digest # ""
             THEN IF r.err = "NotFound"
                  THEN RemoveLayersFrom(Tail(layers), bs, fault, Append(attempted, layer.Digest))
                  ELSE IF r.err # "OK"
                  THEN [err |-> r.err, blobs |-> r.blobs, trace |-> Append(attempted, layer.Digest)]
                  ELSE RemoveLayersFrom(Tail(layers), r.blobs, fault,
                                        Append(attempted, layer.Digest))
             ELSE RemoveLayersFrom(Tail(layers), bs, fault, attempted)

\* the manifests a caller holds: what the previous call returned or was called on
Held ==
    IF last.op \in {"remove", "removeLayers", "size"} /\ last.hasM THEN {last.m}
    ELSE Returned

RemoveLayers ==
    \E m \in Held, fault \in {"none"} \cup BlobDigests :
        LET r == RemoveLayersFrom(Append(m.Layers, m.Config), blobs, fault, <<>>)
        IN  /\ last' = [Call("removeLayers") EXCEPT !.m = m, !.hasM = TRUE, !.fault = fault,
                                                    !.err = r.err, !.trace = r.trace]
            /\ blobs' = r.blobs
            /\ UNCHANGED <<files, dirs, env, written, lister, writer, srv, callers>>

SizeCall ==
    \E m \in Held :
        /\ last' = [Call("size") EXCEPT !.m = m, !.hasM = TRUE, !.size = Size(m)]
        /\ UNCHANGED <<files, dirs, env, written, aux>>

\* a pull stores the blob of a layer
StoreBlob ==
    \E d \in BlobDigests :
        /\ d \notin blobs
        /\ blobs' = blobs \cup {d}
        /\ last' = Call("blob")
        /\ UNCHANGED <<files, dirs, env, written, lister, writer, srv, callers>>

\* a put that meets no I/O error
PutOK ==
    \E name \in QualifiedNames :
        \E args \in PutArgs(name, "none") :
            WriteManifest(name, args[1], args[2], "none", 0)

\* a manifest file with no config: its config layer has the empty digest
NoConfigFile == <<LBrace, KLayers(<<LayerB>>), RBrace>>

ExternalNoConfig ==
    /\ files' = [files EXCEPT ![Filepath(DemoName)] = File(NoConfigFile)]
    /\ dirs' = dirs \cup DirsOf(Filepath(DemoName))
    /\ written' = [written EXCEPT ![DemoName] = NotWritten]
    /\ last' = [Call("external") EXCEPT !.fp = Join(Filepath(DemoName))]
    /\ UNCHANGED <<env, aux>>

NextLayers ==
    PutOK \/ Get \/ List \/ Remove \/ SetEnv \/ ExternalNoConfig \/ RemoveLayers \/ SizeCall
        \/ StoreBlob

SpecLayers == Init /\ [][NextLayers]_vars


(***************************************************************************)
(* The store's calls running at the same time: a Manifests call and a      *)
(* WriteManifest call taken one filesystem call at a time, with whole      *)
(* ParseNamedManifest and Remove calls of other goroutines in between      *)
(***************************************************************************)
\* a create that leaves the content of an existing file in place
CreateKeeping(fs, rel) ==
    IF fs[rel].kind = "none" THEN [fs EXCEPT ![rel] = File(<<>>)] ELSE fs

\* os.Create: the file is created, or truncated if it exists
Create(fs, rel) == [fs EXCEPT ![rel] = File(<<>>)]

\* the (config, layers) of the puts that run next to other calls
ConcArgs(name) ==
    IF name = AppleName THEN {<<LayerA, <<LayerB>>>>}
    ELSE {<<LayerA, <<>>>>, <<LayerB, <<LayerA>>>>}

\* WriteManifest up to the return of os.Create
WriteBegin ==
    \E name \in QualifiedNames :
        \E args \in ConcArgs(name) :
            /\ writer.pc = "idle"
            /\ dirs' = dirs \cup DirsOf(Filepath(name))
            /\ files' = Create(files, Filepath(name))
            /\ written' = [written EXCEPT ![name] = NotWritten]
            /\ writer' = [pc |-> "created", name |-> name, config |-> args[1],
                          layers |-> args[2], old |-> written[name]]
            /\ UNCHANGED <<env, last, blobs, lister, srv, callers>>

\* WriteManifest from Encode to its return: the encoding goes into the file
\* Create opened, which a Remove since then has unlinked from its path
WriteEnd ==
    LET name == writer.name
        rel == Filepath(name)
        m == [ZeroManifest EXCEPT !.SchemaVersion = 2, !.MediaType = DockerMediaType,
                                  !.Config = writer.config, !.Layers = writer.layers]
    IN  /\ writer.pc = "created"
        /\ writer' = IdleWriter
        /\ last' = [Call("put") EXCEPT !.name = name,
                                       !.trace = <<"GetManifestPath", "MkdirAll", "Create", "Write">>]
        /\ IF files[rel].kind = "none"
           THEN UNCHANGED <<files, written>>
           ELSE /\ files' = [files EXCEPT ![rel] = File(EncodeManifest(m))]
                /\ written' = [written EXCEPT ![name] =
                                  [set |-> TRUE,
                                   over |-> writer.old.set
                                            /\ <<writer.old.config, writer.old.layers>>
                                               # <<writer.config, writer.layers>>,
                                   removed |-> FALSE, config |-> writer.config,
                                   layers |-> writer.layers]]
        /\ UNCHANGED <<dirs, env, blobs, lister, srv, callers>>

\* Manifests up to the return of filepath.Glob
ListBegin ==
    \E continueOnError \in BOOLEAN :
        /\ lister.pc = "idle"
        /\ lister' = [pc |-> "stat", tolerant |-> continueOnError, matches |-> Glob(files),
                      i |-> 1, ms |-> EmptyMap]
        /\ UNCHANGED <<files, dirs, env, last, written, blobs, writer, srv, callers>>

\* what a Manifests call in progress returns
ListReturn(r) ==
    /\ last' = [Call("list") EXCEPT !.tolerant = lister.tolerant, !.enabled = env,
                                    !.err = r.err, !.errAt = r.errAt,
                                    !.nilMs = r.nilMs, !.ms = r.ms]
    /\ lister' = IdleLister

\* os.Stat(match) of the next match
ListStat ==
    /\ lister.pc = "stat"
    /\ lister.i <= Len(lister.matches)
    /\ LET rel == lister.matches[lister.i]
       IN  IF files[rel].kind = "none" THEN ListReturn(ListErr("NotFound", rel))
           ELSE IF files[rel].kind = "dir"
           THEN /\ lister' = [lister EXCEPT !.i = lister.i + 1]
                /\ UNCHANGED last
           ELSE /\ lister' = [lister EXCEPT !.pc = "parse"]
                /\ UNCHANGED last
    /\ UNCHANGED <<files, dirs, env, written, blobs, writer, srv, callers>>

\* the rest of the loop body for a match that is not a directory
ListParse ==
    /\ lister.pc = "parse"
    /\ LET rel == Rel(Join(lister.matches[lister.i]))
           n == ParseNameFromFilepath(rel)
           r == ParseNamedManifest(files, n)
           continue == [lister EXCEPT !.pc = "stat", !.i = lister.i + 1]
       IN  IF ~IsValid(n)
           THEN IF ~lister.tolerant THEN ListReturn(ListErr("InvalidName", rel))
                ELSE lister' = continue /\ UNCHANGED last
           ELSE IF r.err # "OK"
           THEN IF ~lister.tolerant THEN ListReturn(ListErr(r.err, rel))
                ELSE lister' = continue /\ UNCHANGED last
           ELSE /\ lister' = [continue EXCEPT !.ms = (n :> r.m) @@ lister.ms]
                /\ UNCHANGED last
    /\ UNCHANGED <<files, dirs, env, written, blobs, writer, srv, callers>>

\* after the loop: "Add models" and the return
ListEnd ==
    /\ lister.pc = "stat"
    /\ lister.i > Len(lister.matches)
    /\ ListReturn(IF env THEN AddModels(lister.ms, lister.tolerant) ELSE ListOK(lister.ms))
    /\ UNCHANGED <<files, dirs, env, written, blobs, writer, srv, callers>>

NextConc ==
    WriteBegin \/ WriteEnd \/ ListBegin \/ ListStat \/ ListParse \/ ListEnd \/ Get \/ Remove

SpecConc == Init /\ [][NextConc]_vars


(***************************************************************************)
(* The runner Server: the loading goroutine NewServer starts and the       *)
(* goroutines that call the Server's methods, one synchronisation at a time *)
(***************************************************************************)
\* srv.loader: the loading goroutine is at time.Sleep ("sleep"), holds the
\*   mutex ("locked"), has assigned status and progress ("set"), has released
\*   the mutex ("unlocked"), has run the deferred ready.Done() ("done")
\* srv.mu: the goroutine that holds the mutex, "" if none
\* srv.loaded: the loading goroutine has assigned status and progress
\* srv.closed: a Close has returned
\* callers[c]: op is the method of the call in progress or of the last call,
\*   ret what it returned; cancelled: ctx.Done() is closed; early: ctx was
\*   cancelled before the loading goroutine assigned the status; done: the
\*   call's done channel is closed; atSelect: the cases that were ready when
\*   select chose; callbacks, cbDone: the calls of fn and its Done member;
\*   late: the call began after a Close had returned; seen: the status the
\*   call read
Waiters == {"Completion", "Embedding", "Tokenize", "Detokenize"}

Lockers == {"Ping", "Close", "Health"}

Methods == {"WaitUntilRunning"} \cup Waiters \cup Lockers

\* a goroutine that calls ready.Done() before it takes the mutex
LoaderLockDone ==
    /\ srv.loader = "sleep"
    /\ srv.mu = ""
    /\ srv' = [srv EXCEPT !.loader = "locked", !.mu = "loader", !.ready = srv.ready - 1]
    /\ UNCHANGED <<files, dirs, env, last, written, blobs, lister, writer, callers>>

\* s.mu.Lock() of the loading goroutine
LoaderLock ==
    /\ srv.loader = "sleep"
    /\ srv.mu = ""
    /\ srv' = [srv EXCEPT !.loader = "locked", !.mu = "loader"]
    /\ UNCHANGED <<files, dirs, env, last, written, blobs, lister, writer, callers>>

\* s.status = Ready; s.progress = 1.0
LoaderSet ==
    /\ srv.loader = "locked"
    /\ srv' = [srv EXCEPT !.loader = "set", !.status = "Ready", !.progress = 1, !.loaded = TRUE]
    /\ UNCHANGED <<files, dirs, env, last, written, blobs, lister, writer, callers>>

\* s.mu.Unlock()
LoaderUnlock ==
    /\ srv.loader = "set"
    /\ srv' = [srv EXCEPT !.loader = "unlocked", !.mu = ""]
    /\ UNCHANGED <<files, dirs, env, last, written, blobs, lister, writer, callers>>

\* a goroutine that ends without ready.Done()
LoaderExit ==
    /\ srv.loader = "unlocked"
    /\ srv' = [srv EXCEPT !.loader = "done"]
    /\ UNCHANGED <<files, dirs, env, last, written, blobs, lister, writer, callers>>

\* the deferred s.ready.Done()
LoaderDone ==
    /\ srv.loader = "unlocked"
    /\ srv' = [srv EXCEPT !.loader = "done", !.ready = srv.ready - 1]
    /\ UNCHANGED <<files, dirs, env, last, written, blobs, lister, writer, callers>>

Loader == LoaderLock \/ LoaderSet \/ LoaderUnlock \/ LoaderDone

\* a goroutine calls a method: WaitUntilRunning makes its channel and starts
\* its helper goroutine, the others reach ready.Wait() or mu.Lock()
Begin(c) ==
    \E op \in Methods :
        /\ callers[c].pc = "idle"
        /\ callers' = [callers EXCEPT ![c] =
                          [IdleCaller EXCEPT !.op = op, !.late = srv.closed,
                                             !.pc = IF op = "WaitUntilRunning" THEN "select"
                                                    ELSE IF op \in Waiters THEN "wait"
                                                    ELSE "lock"]]
        /\ UNCHANGED <<files, dirs, env, last, written, blobs, lister, writer, srv>>

\* the context of a WaitUntilRunning call is cancelled
Cancel(c) ==
    /\ callers[c].pc = "select"
    /\ ~callers[c].cancelled
    /\ callers' = [callers EXCEPT ![c].cancelled = TRUE, ![c].early = ~srv.loaded]
    /\ UNCHANGED <<files, dirs, env, last, written, blobs, lister, writer, srv>>

\* the helper goroutine of WaitUntilRunning: s.ready.Wait(); close(done)
HelperClose(c) ==
    /\ callers[c].pc = "select"
    /\ ~callers[c].done
    /\ srv.ready = 0
    /\ callers' = [callers EXCEPT ![c].done = TRUE]
    /\ UNCHANGED <<files, dirs, env, last, written, blobs, lister, writer, srv>>

\* the select of WaitUntilRunning: one of the cases that are ready; the
\* helper goroutine of a call that returns on ctx.Done() stays behind and
\* touches nothing a later call reads
Select(c) ==
    /\ callers[c].pc = "select"
    /\ \E case \in {"ctx", "done"} :
        /\ case = "ctx" => callers[c].cancelled
        /\ case = "done" => callers[c].done
        /\ callers' = [callers EXCEPT ![c].pc = "idle",
                                      ![c].ret = IF case = "ctx" THEN "ctx" ELSE "nil",
                                      ![c].atSelect = IF callers[c].cancelled /\ callers[c].done
                                                      THEN "both" ELSE case,
                                      ![c].seen = srv.status]
    /\ UNCHANGED <<files, dirs, env, last, written, blobs, lister, writer, srv>>

\* s.ready.Wait() returns, and with it the method: Completion calls fn once
\* with Done set
ReadyWait(c) ==
    /\ callers[c].pc = "wait"
    /\ srv.ready = 0
    /\ callers' = [callers EXCEPT ![c].pc = "idle", ![c].ret = "nil",
                                  ![c].callbacks = IF callers[c].op = "Completion"
                                                   THEN callers[c].callbacks + 1
                                                   ELSE callers[c].callbacks,
                                  ![c].cbDone = (callers[c].op = "Completion")]
    /\ UNCHANGED <<files, dirs, env, last, written, blobs, lister, writer, srv>>

\* s.mu.Lock() of Ping, Close and Health
Lock(c) ==
    /\ callers[c].pc = "lock"
    /\ srv.mu = ""
    /\ srv' = [srv EXCEPT !.mu = c]
    /\ callers' = [callers EXCEPT ![c].pc = "locked"]
    /\ UNCHANGED <<files, dirs, env, last, written, blobs, lister, writer>>

\* the body of Ping, Close or Health, and the deferred s.mu.Unlock()
Locked(c) ==
    /\ callers[c].pc = "locked"
    /\ callers' = [callers EXCEPT ![c].pc = "idle",
                                  ![c].seen = IF callers[c].op = "Close" THEN "" ELSE srv.status,
                                  ![c].ret = IF callers[c].op = "Ping" /\ srv.status # "Ready"
                                             THEN "err" ELSE "nil"]
    /\ srv' = IF callers[c].op = "Close"
              THEN [srv EXCEPT !.mu = "", !.status = "Error", !.closed = TRUE]
              ELSE [srv EXCEPT !.mu = ""]
    /\ UNCHANGED <<files, dirs, env, last, written, blobs, lister, writer>>

\* the steps of a call that is in progress
Step(c) == HelperClose(c) \/ Select(c) \/ ReadyWait(c) \/ Lock(c) \/ Locked(c)

NextServer == Loader \/ \E c \in Callers : Begin(c) \/ Cancel(c) \/ Step(c)

SpecServer == Init /\ [][NextServer]_vars

\* the scheduler runs every goroutine that can run, and sync.Mutex hands the
\* lock to a goroutine that keeps waiting for it (starvation mode)
FairSpecServer ==
    /\ SpecServer
    /\ SF_vars(LoaderLock)
    /\ WF_vars(LoaderSet \/ LoaderUnlock \/ LoaderDone)
    /\ \A c \in Callers :
        /\ SF_vars(Lock(c))
        /\ WF_vars(HelperClose(c) \/ Select(c) \/ ReadyWait(c) \/ Locked(c))

(***************************************************************************)
(* Properties                                                              *)
(***************************************************************************)
\* what get answers on a name in the present store
Readable(n) == ParseNamedManifest(files, n).err = "OK"

\* an entry a listing cannot take: a file with an invalid name, or one get fails on
BadEntry(rel) ==
    /\ files[rel].kind = "file"
    /\ \/ ~IsValid(ParseNameFromFilepath(rel))
       \/ ~Readable(ParseNameFromFilepath(rel))

BadIndexes == {i \in 1..Len(GlobOrder) : BadEntry(GlobOrder[i])}

FirstBad == GlobOrder[CHOOSE i \in BadIndexes : \A j \in BadIndexes : i <= j]

\* a manifest as the provider builds it, with no file behind it
IsSynthetic(m) == m.IsAppleFoundationModel /\ m.filepath = <<>>

\* C1: a get on a name whose file was written by a successful put, with no
\* remove or other write since, succeeds and returns the config and the
\* ordered layers of that (most recent) put
RoundTrip ==
    (last.op = "get" /\ last.name \in QualifiedNames /\ written[last.name].set)
        => /\ last.err = "OK"
           /\ last.m.Config = written[last.name].config
           /\ last.m.Layers = written[last.name].layers

\* a get returns the two ordered layers of a put that replaced an earlier put
RoundTripWitness ==
    /\ last.op = "get"
    /\ last.name = DemoName
    /\ written[DemoName].set
    /\ written[DemoName].over
    /\ last.err = "OK"
    /\ last.m.Layers = <<LayerB, LayerA>>
    /\ last.m.Config = LayerB

\* C2 (as claimed): a put with a name that is not fully qualified returns
\* Unqualified and makes no filesystem call
PutUnqualifiedRejected ==
    (last.op = "put" /\ ~IsFullyQualified(last.name))
        => /\ last.err = "Unqualified"
           /\ last.trace = <<>>

\* C3 (as claimed): the digest of a manifest returned by get is the hash of
\* the whole content of its file, the bytes after the JSON value included
DigestIsHashOfFile ==
    (last.op = "get" /\ last.err = "OK")
        => last.m.digest = SHA256Hex(files[Filepath(last.name)].bytes)

\* C4: a tolerant listing returns no error, and apart from the synthetic
\* entry merged in afterwards its mapping holds exactly the names get can
\* read, each with the manifest get returns
TolerantListing ==
    (last.op = "list" /\ last.tolerant)
        => /\ last.err = "OK"
           /\ ~last.nilMs
           /\ LET synthetic == IF last.enabled THEN DOMAIN createAppleManifests.ms ELSE {}
              IN  /\ (DOMAIN last.ms) \ synthetic = {n \in QualifiedNames : Readable(n)} \ synthetic
                  /\ \A n \in (DOMAIN last.ms) \ synthetic :
                        last.ms[n] = ParseNamedManifest(files, n).m

\* a corrupt file and a badly named file come before a valid one, which is listed
TolerantListingWitness ==
    /\ last.op = "list"
    /\ last.tolerant
    /\ ~last.enabled
    /\ files[Filepath(AppleName)].kind = "file"
    /\ ParseNamedManifest(files, AppleName).err = "Corrupt"
    /\ files[BadPath].kind = "file"
    /\ DOMAIN last.ms = {DemoName}

\* C5: a strict listing over a store with a bad entry returns the error of
\* the first bad entry in enumeration order, and a nil mapping
StrictListing ==
    (last.op = "list" /\ ~last.tolerant /\ BadIndexes # {})
        => /\ last.err # "OK"
           /\ last.nilMs
           /\ last.ms = EmptyMap
           /\ last.errAt = FirstBad
           /\ last.err = IF ~IsValid(ParseNameFromFilepath(FirstBad)) THEN "InvalidName"
                         ELSE ParseNamedManifest(files, ParseNameFromFilepath(FirstBad)).err

\* the bad entry comes after an entry that was read
StrictListingWitness ==
    /\ last.op = "list"
    /\ ~last.tolerant
    /\ Readable(AppleName)
    /\ last.err = "Corrupt"
    /\ last.errAt = Filepath(DemoName)
    /\ last.nilMs

\* C6: a listing that succeeds with the flag on maps the synthetic model's
\* name to the synthetic manifest, whether or not a real file lies under
\* that name; with the flag off it holds that name only if a file backs it,
\* and maps it to the manifest read from that file
SyntheticOverride ==
    (last.op = "list" /\ last.err = "OK")
        => /\ last.enabled
              => /\ AppleName \in DOMAIN last.ms
                 /\ IsSynthetic(last.ms[AppleName])
                 /\ last.ms[AppleName] = createAppleManifests.ms[AppleName]
           /\ (~last.enabled /\ AppleName \in DOMAIN last.ms)
              => /\ files[Filepath(AppleName)].kind = "file"
                 /\ last.ms[AppleName] = ParseNamedManifest(files, AppleName).m
                 /\ last.ms[AppleName].filepath = Join(Filepath(AppleName))

\* the flag is on and a readable real manifest lies under the synthetic name
SyntheticOverrideWitness ==
    /\ last.op = "list"
    /\ last.err = "OK"
    /\ last.enabled
    /\ Readable(AppleName)
    /\ IsSynthetic(last.ms[AppleName])

\* C7 (as claimed): remove on a synthetic manifest fails with Protected and
\* changes nothing
RemoveSyntheticProtected ==
    (last.op = "remove" /\ IsSynthetic(last.m))
        => /\ last.err = "Protected"
           /\ "PruneDirectory" \notin {last.trace[i] : i \in 1..Len(last.trace)}

\* C8 (as claimed): every synthetic entry of a listing has a file info that
\* is present, is not a directory and reports the manifest's Size()
SyntheticFileInfo ==
    (last.op = "list" /\ ~last.nilMs)
        => \A n \in DOMAIN last.ms :
              IsSynthetic(last.ms[n])
                  => /\ last.ms[n].fi.present
                     /\ ~last.ms[n].fi.isDir
                     /\ last.ms[n].fi.size = Size(last.ms[n])

\* C9 (as claimed): provider output is marked synthetic and has an empty
\* path; a manifest read from a file is not marked and has a path
SyntheticIffNoBackingFile ==
    /\ \A n \in DOMAIN createAppleManifests.ms : IsSynthetic(createAppleManifests.ms[n])
    /\ (last.op = "get" /\ last.err = "OK")
          => /\ ~last.m.IsAppleFoundationModel
             /\ last.m.filepath # <<>>

\* C10: a get on a fully qualified name whose file a remove deleted, with no
\* put creating it since, or that has no file at its path at all, fails with
\* NotFound and returns no manifest
GetAfterRemove ==
    (/\ last.op = "get"
     /\ last.name \in QualifiedNames
     /\ written[last.name].removed \/ files[Filepath(last.name)].kind = "none")
        => /\ last.err = "NotFound"
           /\ ~last.hasM

\* a get follows the remove of the file of its name
GetAfterRemoveWitness ==
    /\ last.op = "get"
    /\ last.name \in QualifiedNames
    /\ written[last.name].removed
    /\ last.err = "NotFound"

\* the directories below the store root that hold no file, at any depth
EmptyDirs ==
    {d \in dirs : ~\E p \in AllPaths : files[p].kind = "file" /\ d \in DirsOf(p)}
        \cup {p \in AllPaths : files[p].kind = "dir"}

\* C11: after a successful remove no empty directory is left below the store
\* root; the file is deleted first and the pruning of the root follows, and a
\* remove whose deletion failed prunes nothing
PruneOnRemove ==
    (last.op = "remove")
        => IF last.err = "OK"
           THEN /\ files[Rel(last.fp)].kind = "none"
                /\ EmptyDirs = {}
                /\ last.trace = <<"Remove", "GetManifestPath", "PruneDirectory">>
           ELSE last.trace = <<"Remove">>

\* the only manifest of the store was removed and no directory is left
PruneOnRemoveWitness ==
    /\ last.op = "remove"
    /\ last.err = "OK"
    /\ last.fp = Join(Filepath(DemoName))
    /\ \A p \in AllPaths : files[p].kind = "none"
    /\ dirs = {}

\* C13: a get with a name that is not fully qualified returns Unqualified and
\* no manifest, and has made no filesystem call (the store root is not
\* resolved, nothing is opened or stat'ed)
GetUnqualifiedRejected ==
    (last.op = "get" /\ ~IsFullyQualified(last.name))
        => /\ last.err = "Unqualified"
           /\ ~last.hasM
           /\ last.trace = <<>>

\* a get was called with the name that has no tag
GetUnqualifiedWitness ==
    /\ last.op = "get"
    /\ last.name = UnqualName
    /\ last.err = "Unqualified"

\* the sum of the sizes of the layers from the i-th on
RECURSIVE SizesFrom(_, _)
SizesFrom(layers, i) ==
    IF i > Len(layers) THEN 0 ELSE layers[i].Size + SizesFrom(layers, i + 1)

\* C12: Size() of a manifest, with any number of layers, is the size of its
\* config plus the sizes of its layers, each once
SizeInvariant ==
    (last.op = "size")
        => last.size = last.m.Config.Size + SizesFrom(last.m.Layers, 1)

\* Size() was called on a manifest read from disk with a config and two layers
SizeInvariantWitness ==
    /\ last.op = "size"
    /\ last.m.Config = LayerA
    /\ last.m.Layers = <<LayerB, LayerA>>
    /\ last.size = 2068

\* the non-empty digests of append(m.Layers, m.Config), in order
Digests(m) ==
    LET ls == SelectSeq(Append(m.Layers, m.Config), LAMBDA l : l.Digest # "")
    IN  [i \in 1..Len(ls) |-> ls[i].Digest]

\* the position of the first digest whose deletion fails, 0 if none does
FirstFault(ds, fault) ==
    IF \E i \in 1..Len(ds) : ds[i] = fault
    THEN CHOOSE i \in 1..Len(ds) : ds[i] = fault /\ \A j \in 1..(i - 1) : ds[j] # fault
    ELSE 0

\* C16: removeLayers calls the blob deletion on the non-empty digests of
\* layers then config, in order, and never on an empty digest; without a
\* failure other than NotFound it goes through all of them, returns no error
\* and leaves none of their blobs; at the first other failure it stops,
\* returns it, and the blobs of the later layers stay as they were
RemoveLayersContract ==
    [][(last'.op = "removeLayers")
           => LET ds == Digests(last'.m)
                  k == FirstFault(ds, last'.fault)
              IN  IF k = 0
                  THEN /\ last'.err = "OK"
                       /\ last'.trace = ds
                       /\ blobs' = blobs \ {ds[i] : i \in 1..Len(ds)}
                  ELSE /\ last'.err = "IOError"
                       /\ last'.trace = SubSeq(ds, 1, k)
                       /\ blobs' = blobs \ {ds[i] : i \in 1..(k - 1)}]_vars

\* a call that a failure stopped at the second layer: the blob of the first
\* is gone, the blob of the second is still there
RemoveLayersWitness ==
    /\ last.op = "removeLayers"
    /\ last.err = "IOError"
    /\ last.fault = LayerB.Digest
    /\ last.m.Layers = <<LayerA, LayerB>>
    /\ last.m.Config = LayerA
    /\ last.trace = <<LayerA.Digest, LayerB.Digest>>
    /\ blobs = {LayerB.Digest}

\* the layers and config of a manifest
LayersOf(m) == {Append(m.Layers, m.Config)[i] : i \in 1..(Len(m.Layers) + 1)}

\* a manifest file of the store names a blob that is not in the blob store
Dangling(n) ==
    /\ Readable(n)
    /\ \E l \in LayersOf(ParseNamedManifest(files, n).m) : l.Digest \in BlobDigests \ blobs

\* C17: a removeLayers that returns no error leaves no blob of any non-empty
\* digest of its manifest, whatever other manifest files of the store name
\* the same digest
NoReferenceCounting ==
    (last.op = "removeLayers" /\ last.err = "OK")
        => \A l \in LayersOf(last.m) : l.Digest \notin blobs

\* one of two manifests that name the same blob was removed with its layers,
\* and the file of the other is still there and names the deleted blob
SharedBlobDeleted ==
    /\ last.op = "removeLayers"
    /\ last.err = "OK"
    /\ last.m.filepath = Join(Filepath(AppleName))
    /\ files[Filepath(AppleName)].kind = "none"
    /\ LayerB.Digest \in {last.trace[i] : i \in 1..Len(last.trace)}
    /\ Dangling(DemoName)
    /\ written[DemoName].set
    /\ LayerB \in LayersOf(ParseNamedManifest(files, DemoName).m)

\* C14: a Manifests(continueOnError=true) that runs while other calls
\* remove or rewrite the entries it enumerated returns no error and a map
TolerantUnderConcurrency ==
    (last.op = "list" /\ last.tolerant) => (last.err = "OK" /\ ~last.nilMs)

\* the manifest WriteManifest encodes from its arguments
Written(config, layers) ==
    [SchemaVersion |-> 2, MediaType |-> DockerMediaType, Config |-> config, Layers |-> layers]

\* the members of a manifest that come from the file's JSON
Content(m) ==
    [SchemaVersion |-> m.SchemaVersion, MediaType |-> m.MediaType, Config |-> m.Config,
     Layers |-> m.Layers]

\* C15: a get of a name that runs between the Create and the Write of a put
\* on that name, over a valid manifest, fails or returns a content that is
\* neither the old manifest nor the new one
PartialWriteObserved ==
    [][(/\ last'.op = "get"
        /\ last' # last
        /\ writer.pc = "created"
        /\ writer.old.set
        /\ last'.name = writer.name)
           => \/ last'.err # "OK"
              \/ Content(last'.m) \notin {Written(writer.old.config, writer.old.layers),
                                          Written(writer.config, writer.layers)}]_vars

\* a put is rewriting the valid manifest of a name and a get of the name
\* has just failed on the truncated file
PartialWriteWitness ==
    /\ writer.pc = "created"
    /\ writer.name = DemoName
    /\ writer.old.set
    /\ files[Filepath(DemoName)] = File(<<>>)
    /\ last.op = "get"
    /\ last.name = DemoName
    /\ last.err = "Corrupt"

\* a call of the method op by c has returned
ReturnedFrom(c, op) == callers[c].op = op /\ callers[c].pc = "idle"

\* C18 as stated: WaitUntilRunning returns nil only after the loading goroutine
\* has set status Ready and progress 1.0 and never while the status is
\* LoadingModel, and returns the context's error whenever the context was
\* cancelled before the loading goroutine had set them
WaitUntilRunningAsStated ==
    \A c \in Callers :
        ReturnedFrom(c, "WaitUntilRunning")
            => /\ callers[c].ret = "nil"
                    => srv.loaded /\ srv.progress = 1 /\ callers[c].seen # "LoadingModel"
               /\ callers[c].early => callers[c].ret = "ctx"

\* C18, amended: WaitUntilRunning returns nil only after the loading goroutine
\* has set status Ready and progress 1.0 and never while the status is
\* LoadingModel; it returns the context's error if the context is cancelled
\* and the done channel is not yet closed when select chooses, and either
\* result if both are
WaitUntilRunningContract ==
    \A c \in Callers :
        ReturnedFrom(c, "WaitUntilRunning")
            => /\ callers[c].ret \in {"nil", "ctx"}
               /\ callers[c].ret = "nil"
                    => /\ srv.loaded /\ srv.progress = 1 /\ srv.loader = "done"
                       /\ callers[c].seen # "LoadingModel"
                       /\ callers[c].done
               /\ callers[c].ret = "ctx" => callers[c].cancelled
               /\ (callers[c].cancelled /\ ~callers[c].done) => callers[c].ret = "ctx"

\* a WaitUntilRunning whose context was cancelled while the model was
\* loading has returned the context's error, and another has returned nil
\* after the load
WaitUntilRunningWitness ==
    /\ ReturnedFrom("c1", "WaitUntilRunning")
    /\ callers["c1"].early
    /\ callers["c1"].ret = "ctx"
    /\ callers["c1"].seen = "LoadingModel"
    /\ ReturnedFrom("c2", "WaitUntilRunning")
    /\ callers["c2"].ret = "nil"
    /\ callers["c2"].atSelect = "done"

\* C19: once a Close has returned the status is Error, whatever the loading
\* goroutine does, and a Ping that begins after it fails
CloseIsFinal ==
    /\ srv.closed => srv.status = "Error"
    /\ \A c \in Callers :
        (ReturnedFrom(c, "Ping") /\ callers[c].late) => callers[c].ret = "err"

\* C20: under fair scheduling the loading goroutine completes, every call
\* in progress returns, also while other goroutines take the mutex, and a
\* Completion that has returned has called fn exactly once, with Done set
RunnerLiveness ==
    /\ <>(srv.loader = "done" /\ srv.ready = 0)
    /\ \A c \in Callers :
        [](callers[c].pc # "idle"
              => <>(/\ callers[c].pc = "idle"
                    /\ callers[c].ret # ""
                    /\ callers[c].op = "Completion"
                         => callers[c].callbacks = 1 /\ callers[c].cbDone))

\* a Completion that began while the model was loading has returned after
\* one call of fn, while the other goroutine holds the mutex in a Close
RunnerLivenessWitness ==
    /\ ReturnedFrom("c1", "Completion")
    /\ ~callers["c1"].late
    /\ callers["c1"].ret = "nil"
    /\ callers["c1"].callbacks = 1
    /\ callers["c1"].cbDone
    /\ callers["c2"].op = "Close"
    /\ callers["c2"].pc = "locked"
    /\ ~srv.closed

====
